---- MODULE Spec2Model ----
(***************************************************************************)
(* PersonaMem: the per-user vector index store (retrieval.py), the memory  *)
(* table it indexes (memory_service.py, models.py) and the ranking engine. *)
(*                                                                         *)
(* Three concurrent request handlers act on one user's index:              *)
(*   "chat"    the post-conversation steps 9-10 of process_chat_stream     *)
(*             (runs on the event loop),                                   *)
(*   "rebuild" POST /memory/rebuild-index (runs in the thread pool),       *)
(*   "rank"    GET /memory/search          (runs in the thread pool).      *)
(* PUT /memory and DELETE /memory/{id} are single database transactions.   *)
(* Every step below is one access to shared state (a file or the table);   *)
(* the local computation that follows it in the code is part of the step.  *)
(*                                                                         *)
(* Reals are fixed-point integers scaled by Scale (four decimals).         *)
(*                                                                         *)
(* Beside the store stand the calls that never touch it: the prompt        *)
(* assembler (prompt_builder.py), the importance scorer called on its own, *)
(* and steps 1-8 of a streamed chat turn (chat_service.py).                *)
(***************************************************************************)
EXTENDS Integers, Sequences, FiniteSets, TLC

\* ---------------------------------------------------------------- bounds
MaxRequests == 4
MaxFaults == 1
MaxK == 1
MaxCount == 8
MaxTokens == 3
MaxTurns == 2

\* ------------------------------------------------------- program constants
Scale == 10000
WEIGHT_SEMANTIC == 4000
WEIGHT_RECENCY == 2000
WEIGHT_IMPORTANCE == 2000
WEIGHT_FREQUENCY == 1000
WEIGHT_PERSONAL == 1000
QueryLimit == 100

\* ------------------------------------------------------------ input sets
Owner == "u1"
Users == {"u1", "u2"}
MEMORY_SEMANTIC == "semantic"
MEMORY_EPISODIC == "episodic"
Contents == {"i like tea", "rain"}
\* inner products as index.search returns them, held with five decimals
SimUnit == 10
SimValues == {50000, 54000, 50013}
NoneId == -1
Procs == {"chat", "rebuild", "rank"}

VARIABLES
    memories,     \* the memories table: id -> row, for the rows that exist
    nextId,       \* the next primary key gen_uuid hands out
    clock,        \* datetime.utcnow(), in hours
    indexFile,    \* user_<Owner>.index
    metaFile,     \* user_<Owner>.meta
    saveCount,    \* save_faiss_index calls begun so far; stamps what each writes
    contentLog,   \* id -> content of every row ever created (rows are never edited)
    pc,           \* where each handler stands
    requests,     \* state-changing requests begun so far
    faults,       \* injected failures so far
    chatQueue,    \* new_semantic_mems still to be visited by the loop
    aIndex,       \* add_memory_to_index: index (in memory)
    aIds,         \* add_memory_to_index: memory_ids (in memory)
    aBefore,      \* add_memory_to_index: index.ntotal before index.add
    aFaissId,     \* add_memory_to_index: faiss_id
    aMetaVer,     \* which save wrote the identifier list add_memory_to_index loaded
    aVer,         \* the stamp of add_memory_to_index's own save
    aOutcome,     \* how the last embed_and_store_memory call ended
    rMems,        \* rebuild_user_index: memories (ids, in query order)
    rVer,         \* the stamp of rebuild_user_index's own save
    rOutcome,     \* how the last rebuild_user_index call ended
    kIndex,       \* retrieve_relevant_memories: index as loaded
    kIds,         \* retrieve_relevant_memories: memory_ids as loaded
    kMetaVer,     \* which save wrote the identifier list it loaded
    kTopK,        \* retrieve_relevant_memories: top_k
    kFetched,     \* the candidates list before the sort
    rankResult,   \* the list retrieve_relevant_memories returned
    bpArgs,       \* build_prompt: the arguments of the call
    bpOut,        \* build_prompt: its locals when it returns
    scArgs,       \* compute_importance_score: the arguments of the call
    scOut,        \* compute_importance_score: what it returned
    stPc,         \* where process_chat_stream stands in steps 1-8
    full_response,\* process_chat_stream: the tokens accumulated so far
    sessionMsgs,  \* the chat_messages rows of the session, oldest first
    connected     \* is the client of the streamed response still there

dbVars == <<memories, nextId, contentLog>>
fileVars == <<indexFile, metaFile, saveCount>>
chatVars == <<chatQueue, aIndex, aIds, aBefore, aFaissId, aMetaVer, aVer, aOutcome>>
rebuildVars == <<rMems, rVer, rOutcome>>
rankVars == <<kIndex, kIds, kMetaVer, kTopK, kFetched, rankResult>>
promptVars == <<bpArgs, bpOut>>
scoreVars == <<scArgs, scOut>>
streamVars == <<stPc, full_response, sessionMsgs, connected>>
\* the state of the index store, the table and their handlers
storeVars == <<memories, nextId, clock, indexFile, metaFile, saveCount, contentLog,
               pc, requests, faults, chatQueue, aIndex, aIds, aBefore,
               aFaissId, aMetaVer, aVer, aOutcome, rMems, rVer, rOutcome, kIndex, kIds,
               kMetaVer, kTopK, kFetched, rankResult>>
\* the state of the calls that never touch the store
sideVars == <<promptVars, scoreVars, streamVars>>
vars == <<memories, nextId, clock, indexFile, metaFile, saveCount, contentLog,
          pc, requests, faults, chatQueue, aIndex, aIds, aBefore,
          aFaissId, aMetaVer, aVer, aOutcome, rMems, rVer, rOutcome, kIndex, kIds,
          kMetaVer, kTopK, kFetched, rankResult, bpArgs, bpOut, scArgs, scOut,
          stPc, full_response, sessionMsgs, connected>>

\* --------------------------------------------------------------- helpers
Min(a, b) == IF a < b THEN a ELSE b

Range(s) == {s[i] : i \in 1..Len(s)}

Take(s, n) == SubSeq(s, 1, Min(n, Len(s)))

\* the orderings of the finite set S in which key never increases
RECURSIVE SortedOrders(_, _)
SortedOrders(S, key) ==
    IF S = {} THEN {<<>>}
    ELSE LET top == {x \in S : \A y \in S : key[x] >= key[y]}
         IN UNION {{<<x>> \o r : r \in SortedOrders(S \ {x}, key)} : x \in top}

\* S in ascending order
RECURSIVE Ascending(_)
Ascending(S) ==
    IF S = {} THEN <<>>
    ELSE LET m == CHOOSE x \in S : \A y \in S : x <= y
         IN <<m>> \o Ascending(S \ {m})

\* a file that does not exist / a file holding data, written by save number ver
Absent == [exists |-> FALSE, ver |-> 0, data |-> <<>>]
FileOf(ver, data) == [exists |-> TRUE, ver |-> ver, data |-> data]

\* the index object built by faiss.IndexFlatIP(dim) and what index.add appends
EmptyIndex == <<>>
EmbedText(text) == [vec |-> text]

\* ---------------------------------------------------- relevance scorer
\* texts the scorer is applied to besides those of Contents
LoveHate == "i love tea and i hate rain"
Introduction ==
    "my name is al and i am happy: i work hard, i live well, i love my job, i never fear, i must remember my goal"
RiverWalk ==
    "the walk along the river took most of the afternoon and the light was low by the time the bridge came into view again"
Confession ==
    "i am al and my name matters: i work, i live, i study, i have a dream and a wish, i love and hate, i fear, i am happy or sad, excited, angry, worried about what is important, critical, urgent, an emergency; i always prefer and never forget my goal, i need and must remember that my job, my career, my hobby and my project are what i like, what i dislike and what i want"

\* a second text whose first 120 characters are those of Confession
ConfessionOpening ==
    "i am al and my name matters: i work, i live, i study, i have a dream and a wish, i love and hate, i fear, i am happy or "
ConfessionRetold ==
    "i am al and my name matters: i work, i live, i study, i have a dream and a wish, i love and hate, i fear, i am happy or glad to be here"

\* content.lower(), on the strings of Contents and their upper-case spellings
Lower(text) ==
    CASE text = "I LIKE TEA" -> "i like tea"
      [] text = "RAIN" -> "rain"
      [] OTHER -> text

\* text[:120]: of the texts above only Confession and ConfessionRetold are longer
First120(text) ==
    CASE text = Confession -> ConfessionOpening
      [] text = ConfessionRetold -> ConfessionOpening
      [] OTHER -> text

\* a key that keeps the case of the content
ContentKeyCaseSensitive(text) == First120(text)

\* content.lower()[:120]
ContentKey(text) == First120(Lower(text))

ContentLen(text) ==
    CASE Lower(text) = "i like tea" -> 10
      [] Lower(text) = "rain" -> 4
      [] text = LoveHate -> 26
      [] text = Introduction -> 108
      [] text = RiverWalk -> 117
      [] text = Confession -> 368
      [] text = ConfessionRetold -> 135
      [] OTHER -> 0

\* number of EMOTIONAL_KEYWORDS / FACTUAL_KEYWORDS occurring in the lowered text
EmotionalHits(text) ==
    CASE text = LoveHate -> 2
      [] text = Introduction -> 7
      [] text = Confession -> 21
      [] text = ConfessionRetold -> 6
      [] OTHER -> 0
FactualHits(text) ==
    CASE Lower(text) = "i like tea" -> 1
      [] text = Introduction -> 6
      [] text = Confession -> 15
      [] text = ConfessionRetold -> 6
      [] OTHER -> 0

\* the reinforcement term with its sign turned
ImportanceSignSlip(content, reinforcement_count) ==
    LET score == 3000
                 + Min(EmotionalHits(content) * 500, 2500)
                 + Min(FactualHits(content) * 800, 2400)
                 + (IF ContentLen(content) > 100 THEN 500 ELSE 0)
                 + (IF ContentLen(content) > 300 THEN 500 ELSE 0)
                 + Min((1 - reinforcement_count) * 200, 1000)
    IN Min(score, Scale)

compute_importance_score(content, reinforcement_count) ==
    LET score == 3000
                 + Min(EmotionalHits(content) * 500, 2500)
                 + Min(FactualHits(content) * 800, 2400)
                 + (IF ContentLen(content) > 100 THEN 500 ELSE 0)
                 + (IF ContentLen(content) > 300 THEN 500 ELSE 0)
                 + Min((reinforcement_count - 1) * 200, 1000)
    IN Min(score, Scale)

compute_recency_score(timestamp, now) ==
    LET age_hours == now - timestamp
    IN IF age_hours < 1 THEN 10000
       ELSE IF age_hours < 24 THEN 8500
       ELSE IF age_hours < 168 THEN 6500
       ELSE IF age_hours < 720 THEN 4500
       ELSE IF age_hours < 8760 THEN 2500
       ELSE 1000

\* the calls of the scorer: every text with every reinforcement count
ScoredTexts == Contents \cup {"I LIKE TEA", LoveHate, Introduction, RiverWalk, Confession}
ScoreCalls == [called : {TRUE}, content : ScoredTexts, reinforcement_count : 1..MaxCount]
NoScoreCall == [called |-> FALSE]
NoScore == [scored |-> FALSE]

\* compute_importance_score runs on the arguments of the call, and again as
\* update_memory_access would call it after one more reinforcement
ScoreImportance ==
    /\ scArgs.called
    /\ ~scOut.scored
    /\ scOut' = [scored |-> TRUE,
                 score |-> compute_importance_score(scArgs.content, scArgs.reinforcement_count),
                 reinforced |-> compute_importance_score(scArgs.content,
                                                         scArgs.reinforcement_count + 1)]
    /\ UNCHANGED <<storeVars, promptVars, scArgs, streamVars>>

\* ------------------------------------------------------- memories table
\* models.Memory(...) as create_memory fills it
NewMemory(user_id, memory_type, content) ==
    [user_id |-> user_id,
     memory_type |-> memory_type,
     content |-> content,
     importance_score |-> compute_importance_score(content, 1),
     last_accessed |-> clock,
     reinforcement_count |-> 1,
     timestamp |-> clock,
     faiss_index_id |-> NoneId]

\* the table after create_memory
create_memory(table, id, user_id, memory_type, content) ==
    [i \in DOMAIN table \cup {id} |->
        IF i = id THEN NewMemory(user_id, memory_type, content) ELSE table[i]]

\* an access that counts the reinforcement and leaves the score as it was
AccessWithoutRescore(table, id) ==
    [table EXCEPT ![id].last_accessed = clock,
                  ![id].reinforcement_count = @ + 1]

\* the table after update_memory_access on row id
update_memory_access(table, id) ==
    [table EXCEPT ![id].last_accessed = clock,
                  ![id].reinforcement_count = @ + 1,
                  ![id].importance_score =
                      compute_importance_score(table[id].content,
                                               table[id].reinforcement_count + 1)]

\* the rows upsert_memory_by_content's loop can match
Matching(table, user_id, memory_type, content) ==
    {id \in DOMAIN table : /\ table[id].user_id = user_id
                           /\ table[id].memory_type = memory_type
                           /\ ContentKey(table[id].content) = ContentKey(content)}

\* the table after upsert_memory_by_content; id is the key a new row would get
upsert_memory_by_content(table, id, user_id, memory_type, content) ==
    LET hit == Matching(table, user_id, memory_type, content)
    IN IF hit # {}
       THEN update_memory_access(table, CHOOSE m \in hit : \A o \in hit : m <= o)
       ELSE create_memory(table, id, user_id, memory_type, content)

LogContent(log, table) ==
    [i \in DOMAIN log \cup DOMAIN table |-> IF i \in DOMAIN table THEN table[i].content ELSE log[i]]

AllIdle == \A p \in Procs : pc[p] = "idle"

\* PUT /memory
Upsert(user_id, memory_type, content) ==
    /\ requests < MaxRequests
    /\ requests' = requests + 1
    /\ memories' = upsert_memory_by_content(memories, nextId, user_id, memory_type, content)
    /\ nextId' = IF nextId \in DOMAIN memories' THEN nextId + 1 ELSE nextId
    /\ contentLog' = LogContent(contentLog, memories')
    /\ UNCHANGED <<sideVars, clock, fileVars, pc, faults, chatVars, rebuildVars, rankVars>>

\* DELETE /memory/{memory_id}
delete_memory(table, memory_id) == [i \in DOMAIN table \ {memory_id} |-> table[i]]

Delete(memory_id, user_id) ==
    /\ requests < MaxRequests
    /\ requests' = requests + 1
    /\ memory_id \in DOMAIN memories
    /\ memories[memory_id].user_id = user_id
    /\ memories' = delete_memory(memories, memory_id)
    /\ UNCHANGED <<sideVars, nextId, contentLog, clock, fileVars, pc, faults, chatVars, rebuildVars, rankVars>>

\* time passes
Tick ==
    /\ requests < MaxRequests
    /\ requests' = requests + 1
    /\ clock' = clock + 1
    /\ UNCHANGED <<sideVars, dbVars, fileVars, pc, faults, chatVars, rebuildVars, rankVars>>


\* ------------------------------------------------------ vector index store
NoIndex == [present |-> FALSE, ver |-> 0, vecs |-> <<>>]

\* load_faiss_index, up to faiss.read_index: (None, []) unless both files exist
ReadIndex(ifile, mfile) ==
    IF ~ifile.exists \/ ~mfile.exists
    THEN NoIndex
    ELSE [present |-> TRUE, ver |-> ifile.ver, vecs |-> ifile.data]

\* load_faiss_index, pickle.load of the identifier list
ReadMeta(mfile) == mfile.data

NoIds == <<>>

\* index.add(embedding), on the index add_memory_to_index holds (a new one if None)
IndexAdd(index, embedding) ==
    [present |-> TRUE, ver |-> index.ver,
     vecs |-> (IF index.present THEN index.vecs ELSE EmptyIndex) \o <<embedding>>]

\* a one-based ordinal
FaissIdOneBased(memory_ids) == Len(memory_ids) + 1

\* faiss_id = len(memory_ids)
FaissIdOf(memory_ids) == Len(memory_ids)

\* the identifier is not recorded
IdsAppendDropped(memory_ids, memory_id) == memory_ids

\* memory_ids.append(memory_id)
IdsAppend(memory_ids, memory_id) == Append(memory_ids, memory_id)

\* mem.faiss_index_id = faiss_id; db.commit()  (a row deleted meanwhile is not written)
Stamp(table, id, faiss_id) ==
    IF id \in DOMAIN table THEN [table EXCEPT ![id].faiss_index_id = faiss_id] ELSE table

\* a selection of the unstamped rows of every type
UnstampedMemsOfAnyType(table, user_id) ==
    {id \in DOMAIN table : /\ table[id].user_id = user_id
                           /\ table[id].faiss_index_id = NoneId}

\* the rows step 10 of process_chat_stream selects
NewSemanticMems(table, user_id) ==
    {id \in DOMAIN table : /\ table[id].user_id = user_id
                           /\ table[id].memory_type = MEMORY_SEMANTIC
                           /\ table[id].faiss_index_id = NoneId}

\* process_conversation_memories for a turn from which facts were extracted
ConversationMemories(table, id, user_id, facts) ==
    IF facts = <<>> THEN table
    ELSE LET t1 == upsert_memory_by_content(table, id, user_id, MEMORY_EPISODIC, facts[1])
             id2 == IF id \in DOMAIN t1 THEN id + 1 ELSE id
         IN upsert_memory_by_content(t1, id2, user_id, MEMORY_SEMANTIC, facts[1])

\* what extract_facts_from_conversation finds in a turn: "rain" states no fact
FactLists == {<<>>, <<"i like tea">>}

\* embed_and_store_memory is over for the memory at the head of the loop: it
\* returned, or raised into the except clause of step 10
NextInLoop(outcome) ==
    /\ aOutcome' = outcome
    /\ aIndex' = NoIndex
    /\ aIds' = NoIds
    /\ aBefore' = 0
    /\ aFaissId' = 0
    /\ aMetaVer' = 0
    /\ aVer' = 0
    /\ pc' = [pc EXCEPT !["chat"] = "a_next"]
    /\ UNCHANGED chatQueue

\* process_chat_stream, steps 9 and 10 up to the loop
ChatBegin(facts) ==
    /\ pc["chat"] = "idle"
    /\ requests < MaxRequests
    /\ requests' = requests + 1
    /\ memories' = ConversationMemories(memories, nextId, Owner, facts)
    /\ nextId' = nextId + Cardinality(DOMAIN memories' \ DOMAIN memories)
    /\ contentLog' = LogContent(contentLog, memories')
    /\ chatQueue' = Ascending(NewSemanticMems(memories', Owner))
    /\ pc' = [pc EXCEPT !["chat"] = IF chatQueue' = <<>> THEN "idle" ELSE "a_load_index"]
    /\ aOutcome' = "none"
    /\ UNCHANGED <<sideVars, clock, fileVars, faults, aIndex, aIds, aBefore, aFaissId, rebuildVars, rankVars, aMetaVer, aVer>>

\* a later chat turn of the owner from which no fact is extracted: steps 9 and
\* 10 up to the loop.  It creates no row, so it is not counted against MaxRequests
ChatAgain ==
    /\ pc["chat"] = "idle"
    /\ chatQueue' = Ascending(NewSemanticMems(memories, Owner))
    /\ pc' = [pc EXCEPT !["chat"] = IF chatQueue' = <<>> THEN "idle" ELSE "a_load_index"]
    /\ aOutcome' = "none"
    /\ UNCHANGED <<sideVars, dbVars, clock, fileVars, requests, faults, aIndex, aIds, aBefore, aFaissId,
                   rebuildVars, rankVars, aMetaVer, aVer>>

\* a loop whose try encloses the whole for: the first failure ends it
ChatLoopEndsOnFailure ==
    /\ pc["chat"] = "a_next"
    /\ chatQueue' = IF aOutcome = "ok" THEN Tail(chatQueue) ELSE <<>>
    /\ aOutcome' = "none"
    /\ pc' = [pc EXCEPT !["chat"] = IF chatQueue' = <<>> THEN "idle" ELSE "a_load_index"]
    /\ UNCHANGED <<sideVars, dbVars, clock, fileVars, requests, faults, aIndex, aIds, aBefore, aFaissId,
                   rebuildVars, rankVars, aMetaVer, aVer>>

\* the for loop of step 10 takes its next memory, or the turn is over
ChatLoopNext ==
    /\ pc["chat"] = "a_next"
    /\ chatQueue' = Tail(chatQueue)
    /\ aOutcome' = "none"
    /\ pc' = [pc EXCEPT !["chat"] = IF Tail(chatQueue) = <<>> THEN "idle" ELSE "a_load_index"]
    /\ UNCHANGED <<sideVars, dbVars, clock, fileVars, requests, faults, aIndex, aIds, aBefore, aFaissId,
                   rebuildVars, rankVars, aMetaVer, aVer>>

\* add_memory_to_index: load_faiss_index reads the index file
AppendLoadIndex ==
    /\ pc["chat"] = "a_load_index"
    /\ aIndex' = ReadIndex(indexFile, metaFile)
    /\ aIds' = NoIds
    /\ aMetaVer' = 0
    /\ pc' = [pc EXCEPT !["chat"] = IF aIndex'.present THEN "a_load_meta" ELSE "a_embed"]
    /\ UNCHANGED <<sideVars, dbVars, clock, fileVars, requests, faults, chatQueue, aBefore,
                   aFaissId, aOutcome, rebuildVars, rankVars, aVer>>

\* add_memory_to_index: load_faiss_index reads the identifier list
AppendLoadMeta ==
    /\ pc["chat"] = "a_load_meta"
    /\ aIds' = ReadMeta(metaFile)
    /\ aMetaVer' = metaFile.ver
    /\ pc' = [pc EXCEPT !["chat"] = "a_embed"]
    /\ UNCHANGED <<sideVars, dbVars, clock, fileVars, requests, faults, chatQueue, aIndex, aBefore,
                   aFaissId, aOutcome, rebuildVars, rankVars, aVer>>

\* add_memory_to_index: embed_text, index.add, faiss_id, memory_ids.append
AppendEmbed ==
    /\ pc["chat"] = "a_embed"
    /\ aBefore' = Len(aIndex.vecs)
    /\ aIndex' = IndexAdd(aIndex, EmbedText(contentLog[Head(chatQueue)]))
    /\ aFaissId' = FaissIdOf(aIds)
    /\ aIds' = IdsAppend(aIds, Head(chatQueue))
    /\ pc' = [pc EXCEPT !["chat"] = "a_write_index"]
    /\ UNCHANGED <<sideVars, dbVars, clock, fileVars, requests, faults, chatQueue, aOutcome,
                   rebuildVars, rankVars, aMetaVer, aVer>>

\* embed_text raises: the loop swallows it
AppendEmbedFail ==
    /\ pc["chat"] = "a_embed"
    /\ faults < MaxFaults
    /\ faults' = faults + 1
    /\ NextInLoop("embed_failed")
    /\ UNCHANGED <<sideVars, dbVars, clock, fileVars, requests, rebuildVars, rankVars>>

\* save_faiss_index: faiss.write_index
AppendWriteIndex ==
    /\ pc["chat"] = "a_write_index"
    /\ saveCount' = saveCount + 1
    /\ aVer' = saveCount + 1
    /\ indexFile' = FileOf(saveCount + 1, aIndex.vecs)
    /\ pc' = [pc EXCEPT !["chat"] = "a_write_meta"]
    /\ UNCHANGED <<sideVars, dbVars, clock, metaFile, requests, faults, chatQueue, aIndex, aIds,
                   aBefore, aFaissId, aOutcome, rebuildVars, rankVars, aMetaVer>>

\* faiss.write_index raises
AppendWriteIndexFail ==
    /\ pc["chat"] = "a_write_index"
    /\ faults < MaxFaults
    /\ faults' = faults + 1
    /\ NextInLoop("save_failed")
    /\ UNCHANGED <<sideVars, dbVars, clock, fileVars, requests, rebuildVars, rankVars>>

\* save_faiss_index: pickle.dump of the identifier list
AppendWriteMeta ==
    /\ pc["chat"] = "a_write_meta"
    /\ metaFile' = FileOf(aVer, aIds)
    /\ pc' = [pc EXCEPT !["chat"] = "a_stamp"]
    /\ UNCHANGED <<sideVars, dbVars, clock, indexFile, requests, faults, chatQueue, aIndex,
                   aIds, aBefore, aFaissId, aOutcome, rebuildVars, rankVars, aMetaVer, aVer, saveCount>>

\* opening or writing the identifier list raises
AppendWriteMetaFail ==
    /\ pc["chat"] = "a_write_meta"
    /\ faults < MaxFaults
    /\ faults' = faults + 1
    /\ NextInLoop("save_failed")
    /\ UNCHANGED <<sideVars, dbVars, clock, fileVars, requests, rebuildVars, rankVars>>

\* embed_and_store_memory: mem.faiss_index_id = faiss_id; db.commit()
AppendStamp ==
    /\ pc["chat"] = "a_stamp"
    /\ memories' = Stamp(memories, Head(chatQueue), aFaissId)
    /\ NextInLoop("ok")
    /\ UNCHANGED <<sideVars, nextId, contentLog, clock, fileVars, requests, faults, rebuildVars, rankVars>>

\* db.commit() raises after the index was saved
AppendStampFail ==
    /\ pc["chat"] = "a_stamp"
    /\ faults < MaxFaults
    /\ faults' = faults + 1
    /\ NextInLoop("commit_failed")
    /\ UNCHANGED <<sideVars, dbVars, clock, fileVars, requests, rebuildVars, rankVars>>


\* ------------------------------------------------------------- rebuild
\* a query that leaves out the rows that already carry a slot stamp
UnstampedMemoriesByUser(table, user_id, memory_type, limit) ==
    LET rows == {id \in DOMAIN table : /\ table[id].user_id = user_id
                                       /\ table[id].memory_type = memory_type
                                       /\ table[id].faiss_index_id = NoneId}
    IN {Take(o, limit) : o \in SortedOrders(rows, [id \in rows |-> table[id].timestamp])}

\* get_memories_by_user(db, user_id, memory_type): every order the query can
\* return (timestamp descending, rows of equal timestamp in any order), cut at limit
get_memories_by_user(table, user_id, memory_type, limit) ==
    LET rows == {id \in DOMAIN table : /\ table[id].user_id = user_id
                                       /\ table[id].memory_type = memory_type}
    IN {Take(o, limit) : o \in SortedOrders(rows, [id \in rows |-> table[id].timestamp])}

\* embed_texts(texts); index.add(embeddings)
RebuiltIndex(mems) == [i \in 1..Len(mems) |-> EmbedText(contentLog[mems[i]])]

\* memory_ids = [m.id for m in memories]
RebuiltIds(mems) == mems

\* for i, mem in enumerate(memories): mem.faiss_index_id = i; db.commit()
RECURSIVE StampAll(_, _, _)
StampAll(table, mems, i) ==
    IF i > Len(mems) THEN table
    ELSE StampAll(Stamp(table, mems[i], i - 1), mems, i + 1)

\* a rebuild that goes on to stamp and save whatever the query returned
RebuildQueryAlwaysIndexes(mems) ==
    /\ pc["rebuild"] = "idle"
    /\ requests < MaxRequests
    /\ requests' = requests + 1
    /\ rMems' = mems
    /\ rVer' = 0
    /\ rOutcome' = "running"
    /\ pc' = [pc EXCEPT !["rebuild"] = "r_stamp"]
    /\ UNCHANGED <<sideVars, dbVars, clock, fileVars, faults, chatVars, rankVars>>

\* rebuild_user_index: the query; returns at once when there is nothing to index
RebuildQuery(mems) ==
    /\ pc["rebuild"] = "idle"
    /\ requests < MaxRequests
    /\ requests' = requests + 1
    /\ rMems' = mems
    /\ rVer' = 0
    /\ rOutcome' = IF mems = <<>> THEN "noop" ELSE "running"
    /\ pc' = [pc EXCEPT !["rebuild"] = IF mems = <<>> THEN "r_done" ELSE "r_stamp"]
    /\ UNCHANGED <<sideVars, dbVars, clock, fileVars, faults, chatVars, rankVars>>

\* rebuild_user_index: the slot stamps are committed before the index is saved
RebuildStamp ==
    /\ pc["rebuild"] = "r_stamp"
    /\ memories' = StampAll(memories, rMems, 1)
    /\ pc' = [pc EXCEPT !["rebuild"] = "r_write_index"]
    /\ UNCHANGED <<sideVars, nextId, contentLog, clock, fileVars, requests, faults, chatVars, rebuildVars, rankVars>>

\* save_faiss_index: faiss.write_index
RebuildWriteIndex ==
    /\ pc["rebuild"] = "r_write_index"
    /\ saveCount' = saveCount + 1
    /\ rVer' = saveCount + 1
    /\ indexFile' = FileOf(saveCount + 1, RebuiltIndex(rMems))
    /\ pc' = [pc EXCEPT !["rebuild"] = "r_write_meta"]
    /\ UNCHANGED <<sideVars, dbVars, clock, metaFile, requests, faults, chatVars, rMems, rOutcome, rankVars>>

\* faiss.write_index raises
RebuildWriteIndexFail ==
    /\ pc["rebuild"] = "r_write_index"
    /\ faults < MaxFaults
    /\ faults' = faults + 1
    /\ rOutcome' = "save_failed"
    /\ rMems' = <<>>
    /\ rVer' = 0
    /\ pc' = [pc EXCEPT !["rebuild"] = "r_done"]
    /\ UNCHANGED <<sideVars, dbVars, clock, fileVars, requests, chatVars, rankVars>>

\* save_faiss_index: pickle.dump of the identifier list
RebuildWriteMeta ==
    /\ pc["rebuild"] = "r_write_meta"
    /\ metaFile' = FileOf(rVer, RebuiltIds(rMems))
    /\ rOutcome' = "ok"
    /\ rMems' = <<>>
    /\ rVer' = 0
    /\ pc' = [pc EXCEPT !["rebuild"] = "r_done"]
    /\ UNCHANGED <<sideVars, dbVars, clock, indexFile, requests, faults, chatVars, rankVars, saveCount>>

\* opening or writing the identifier list raises
RebuildWriteMetaFail ==
    /\ pc["rebuild"] = "r_write_meta"
    /\ faults < MaxFaults
    /\ faults' = faults + 1
    /\ rOutcome' = "save_failed"
    /\ rMems' = <<>>
    /\ rVer' = 0
    /\ pc' = [pc EXCEPT !["rebuild"] = "r_done"]
    /\ UNCHANGED <<sideVars, dbVars, clock, fileVars, requests, chatVars, rankVars>>


\* rebuild_user_index has returned or raised: the request is answered
RebuildReturn ==
    /\ pc["rebuild"] = "r_done"
    /\ rOutcome' = "none"
    /\ pc' = [pc EXCEPT !["rebuild"] = "idle"]
    /\ UNCHANGED <<sideVars, dbVars, clock, fileVars, requests, faults, chatVars, rMems, rankVars, rVer>>

\* ------------------------------------------------------------- ranking
\* index.search(query_vec, k): the slots (1-based) of the k most similar vectors,
\* most similar first; simOf gives the inner product of the query with a text's vector
SearchOrders(vecs, simOf, k) ==
    {Take(o, k) : o \in SortedOrders(1..Len(vecs), [i \in 1..Len(vecs) |-> simOf[vecs[i].vec]])}

\* min(mem.reinforcement_count / 20.0, 1.0)
Frequency(reinforcement_count) == Min((reinforcement_count * Scale) \div 20, Scale)

\* 0.8 if mem.memory_type in ("profile", "episodic") else 0.5
Personal(memory_type) == IF memory_type \in {"profile", "episodic"} THEN 8000 ELSE 5000

\* round(x, 4) of a value held with nine decimals
Round4(x) == (x + ((Scale * SimUnit) \div 2)) \div (Scale * SimUnit)

\* round(semantic_sim, 4)
RoundSim(semantic_sim) == (semantic_sim + (SimUnit \div 2)) \div SimUnit

\* the weighted sum without its frequency term
CompositeWithoutFrequency(semantic_sim, recency, importance, frequency, personal) ==
    Round4(WEIGHT_SEMANTIC * semantic_sim
           + SimUnit * (WEIGHT_RECENCY * recency
                        + WEIGHT_IMPORTANCE * importance
                        + WEIGHT_PERSONAL * personal))

\* round(composite, 4): semantic_sim has five decimals, the other scores four
Composite(semantic_sim, recency, importance, frequency, personal) ==
    Round4(WEIGHT_SEMANTIC * semantic_sim
           + SimUnit * (WEIGHT_RECENCY * recency
                        + WEIGHT_IMPORTANCE * importance
                        + WEIGHT_FREQUENCY * frequency
                        + WEIGHT_PERSONAL * personal))

\* the dict retrieve_relevant_memories appends for row id found at similarity dist
Candidate(table, id, dist, now) ==
    LET mem == table[id]
        recency == compute_recency_score(mem.timestamp, now)
    IN [id |-> id,
        memory_type |-> mem.memory_type,
        importance_score |-> mem.importance_score,
        semantic_similarity |-> RoundSim(dist),
        recency_score |-> recency,
        composite_score |-> Composite(dist, recency, mem.importance_score,
                                      Frequency(mem.reinforcement_count),
                                      Personal(mem.memory_type)),
        reinforcement_count |-> mem.reinforcement_count]

\* does the query of lines 132-135 find a row for the identifier at ordinal idx
Resolves(table, user_id, memory_ids, idx) ==
    /\ idx >= 0
    /\ idx < Len(memory_ids)
    /\ memory_ids[idx + 1] \in DOMAIN table
    /\ table[memory_ids[idx + 1]].user_id = user_id

\* a loop that stops at the first hit it cannot resolve
RECURSIVE CandidatesUntilStale(_, _, _, _, _, _, _)
CandidatesUntilStale(table, user_id, vecs, memory_ids, simOf, hits, now) ==
    IF hits = <<>> THEN <<>>
    ELSE LET idx == Head(hits) - 1
         IN IF Resolves(table, user_id, memory_ids, idx)
            THEN <<Candidate(table, memory_ids[idx + 1], simOf[vecs[Head(hits)].vec], now)>>
                 \o CandidatesUntilStale(table, user_id, vecs, memory_ids, simOf, Tail(hits), now)
            ELSE <<>>

\* the candidates loop over the search hits
RECURSIVE Candidates(_, _, _, _, _, _, _)
Candidates(table, user_id, vecs, memory_ids, simOf, hits, now) ==
    IF hits = <<>> THEN <<>>
    ELSE LET idx == Head(hits) - 1
             rest == Candidates(table, user_id, vecs, memory_ids, simOf, Tail(hits), now)
         IN IF Resolves(table, user_id, memory_ids, idx)
            THEN <<Candidate(table, memory_ids[idx + 1], simOf[vecs[Head(hits)].vec], now)>> \o rest
            ELSE rest

\* x goes ahead of the elements whose score equals its own
InsertDescUnstable(sorted, x) ==
    LET n == Cardinality({i \in 1..Len(sorted) : sorted[i].composite_score > x.composite_score})
    IN SubSeq(sorted, 1, n) \o <<x>> \o SubSeq(sorted, n + 1, Len(sorted))

\* x goes behind every element whose score is at least its own
InsertDesc(sorted, x) ==
    LET n == Cardinality({i \in 1..Len(sorted) : sorted[i].composite_score >= x.composite_score})
    IN SubSeq(sorted, 1, n) \o <<x>> \o SubSeq(sorted, n + 1, Len(sorted))

\* candidates.sort(key=composite_score, reverse=True): stable, descending
RECURSIVE SortDesc(_)
SortDesc(cands) ==
    IF cands = <<>> THEN <<>>
    ELSE InsertDesc(SortDesc(SubSeq(cands, 1, Len(cands) - 1)), cands[Len(cands)])

\* candidates[:top_k]
Truncate(cands, top_k) == Take(cands, top_k)

\* a rank that counts every candidate as an access
TableAfterRankTouching(table, cands) ==
    IF cands = <<>> THEN table ELSE update_memory_access(table, cands[1].id)

\* the rows retrieve_relevant_memories writes: none
TableAfterRank(table, cands) == table

Queries == [Contents -> SimValues]

\* retrieve_relevant_memories: load_faiss_index reads the index file
RankLoadIndex(top_k) ==
    /\ pc["rank"] = "idle"
    /\ kTopK' = top_k
    /\ kIndex' = ReadIndex(indexFile, metaFile)
    /\ kIds' = NoIds
    /\ kMetaVer' = 0
    /\ kFetched' = <<>>
    /\ rankResult' = <<>>
    /\ pc' = [pc EXCEPT !["rank"] = IF kIndex'.present THEN "k_load_meta" ELSE "k_done"]
    /\ UNCHANGED <<sideVars, dbVars, clock, fileVars, requests, faults, chatVars, rebuildVars>>

\* retrieve_relevant_memories: load_faiss_index reads the identifier list
RankLoadMeta ==
    /\ pc["rank"] = "k_load_meta"
    /\ kIds' = ReadMeta(metaFile)
    /\ kMetaVer' = metaFile.ver
    /\ pc' = [pc EXCEPT !["rank"] = IF Len(kIndex.vecs) = 0 THEN "k_done" ELSE "k_score"]
    /\ UNCHANGED <<sideVars, dbVars, clock, fileVars, requests, faults, chatVars, rebuildVars,
                   kIndex, kTopK, kFetched, rankResult>>

\* k = min(top_k * 3, index.ntotal); index.search(query_vec, k)
Search(simOf) == SearchOrders(kIndex.vecs, simOf, Min(kTopK * 3, Len(kIndex.vecs)))

\* retrieve_relevant_memories: search, resolve, score, sort, truncate
RankScore(simOf, hits) ==
    /\ pc["rank"] = "k_score"
    /\ kFetched' = Candidates(memories, Owner, kIndex.vecs, kIds, simOf, hits, clock)
    /\ rankResult' = Truncate(SortDesc(kFetched'), kTopK)
    /\ memories' = TableAfterRank(memories, kFetched')
    /\ pc' = [pc EXCEPT !["rank"] = "k_done"]
    /\ UNCHANGED <<sideVars, nextId, contentLog, clock, fileVars, requests, faults, chatVars, rebuildVars,
                   kIndex, kIds, kTopK, kMetaVer>>

\* retrieve_relevant_memories returns: the response is sent, the locals are gone
RankReturn ==
    /\ pc["rank"] = "k_done"
    /\ kIndex' = NoIndex
    /\ kIds' = NoIds
    /\ kTopK' = 1
    /\ kFetched' = <<>>
    /\ rankResult' = <<>>
    /\ pc' = [pc EXCEPT !["rank"] = "idle"]
    /\ UNCHANGED <<sideVars, dbVars, clock, fileVars, requests, faults, chatVars, rebuildVars, kMetaVer>>

\* ------------------------------------------------------- prompt assembler
\* A text is a prefix of the text one builder produced, followed or not by the
\* continuation marker "...": src names the builder, len counts the characters
\* kept, and full those the builder produced.
CharsPerToken == 4
MarkerLen == 3
SafetyBuffer == 50
SystemLen == 362
ClipLen == 300
MaxInterests == 5
MaxGoals == 3

Max(a, b) == IF a > b THEN a ELSE b

TextOf(src, len) == [src |-> src, len |-> len, full |-> len, marker |-> FALSE]

\* len(text)
TextLen(text) == text.len + (IF text.marker THEN MarkerLen ELSE 0)

\* len(text[:n]): a negative n counts from the end of the text
SliceLen(len, n) == IF n >= 0 THEN Min(n, len) ELSE Max(len + n, 0)

\* sum of a sequence of lengths
RECURSIVE SumOf(_)
SumOf(lens) == IF lens = <<>> THEN 0 ELSE Head(lens) + SumOf(Tail(lens))

\* len(sep.join(parts)) for parts of the given lengths
JoinLen(lens, sepLen) ==
    IF lens = <<>> THEN 0 ELSE SumOf(lens) + sepLen * (Len(lens) - 1)

estimate_tokens(text) == Max(1, TextLen(text) \div CharsPerToken)

truncate_to_tokens(text, max_tokens) ==
    LET max_chars == max_tokens * CharsPerToken
    IN IF TextLen(text) <= max_chars
       THEN text
       ELSE [text EXCEPT !.len = SliceLen(TextLen(text), max_chars), !.marker = TRUE]

\* SYSTEM_INSTRUCTION
SystemText == TextOf("system", SystemLen)

\* f"\nUser: {user_query}\nAssistant:"
QueryText(user_query) == TextOf("query", 7 + user_query + 11)

\* build_profile_summary: a profile gives the length of each field (0: not set)
\* and the lengths of its interests and goals; NoProfile is None
NoProfile == [set |-> FALSE]

ProfileParts(profile) ==
    (IF profile.display_name > 0 THEN <<6 + profile.display_name>> ELSE <<>>)
    \o (IF profile.expertise_level > 0 THEN <<11 + profile.expertise_level>> ELSE <<>>)
    \o (IF profile.communication_style > 0 THEN <<7 + profile.communication_style>> ELSE <<>>)
    \o (IF profile.interests # <<>>
        THEN <<11 + JoinLen(Take(profile.interests, MaxInterests), 2)>> ELSE <<>>)
    \o (IF profile.goals # <<>>
        THEN <<7 + JoinLen(Take(profile.goals, MaxGoals), 2)>> ELSE <<>>)

build_profile_summary(profile) ==
    IF ~profile.set THEN TextOf("profile", 0)
    ELSE IF ProfileParts(profile) = <<>> THEN TextOf("profile", 0)
    ELSE TextOf("profile", 14 + JoinLen(ProfileParts(profile), 1))

\* len(memory_type), which is also len(memory_type.upper())
TypeLen(memory_type) == IF memory_type \in {"profile", "session"} THEN 7 ELSE 8

\* build_memory_context: a retrieved memory gives its type and len(content)
build_memory_context(retrieved_memories) ==
    IF retrieved_memories = <<>> THEN TextOf("memory", 0)
    ELSE TextOf("memory",
                JoinLen(<<18>> \o [i \in 1..Len(retrieved_memories) |->
                                      (TypeLen(retrieved_memories[i].memory_type) + 2) + 1
                                      + retrieved_memories[i].content], 1))

\* build_session_summary: a message gives its role and len(content)
build_session_summary(session_messages) ==
    IF session_messages = <<>> THEN TextOf("session", 0)
    ELSE TextOf("session",
                JoinLen(<<20>> \o [i \in 1..Len(session_messages) |->
                                      (IF session_messages[i].role = "user" THEN 4 ELSE 9) + 2
                                      + Min(session_messages[i].content, ClipLen)], 1))

\* the sections list of build_prompt
Sections(system_part, profile_text, memory_text, session_text, query_part) ==
    <<system_part>>
    \o (IF TextLen(profile_text) > 0 THEN <<profile_text>> ELSE <<>>)
    \o (IF TextLen(memory_text) > 0 THEN <<memory_text>> ELSE <<>>)
    \o (IF TextLen(session_text) > 0 THEN <<session_text>> ELSE <<>>)
    \o <<query_part>>

\* build_prompt: every local it holds when it returns
build_prompt(user_query, profile, retrieved_memories, session_messages, max_tokens) ==
    LET system_part == SystemText
        query_part == QueryText(user_query)
        reserved == estimate_tokens(system_part) + estimate_tokens(query_part) + SafetyBuffer
        remaining0 == max_tokens - reserved
        profile_src == build_profile_summary(profile)
        profile_cut == estimate_tokens(profile_src) > remaining0 \div 4
        profile_text == IF profile_cut THEN truncate_to_tokens(profile_src, remaining0 \div 4)
                        ELSE profile_src
        profile_tokens == estimate_tokens(profile_text)
        remaining1 == remaining0 - profile_tokens
        memory_src == build_memory_context(retrieved_memories)
        memory_budget == remaining1 \div 2
        memory_cut == estimate_tokens(memory_src) > memory_budget
        memory_text == IF memory_cut THEN truncate_to_tokens(memory_src, memory_budget)
                       ELSE memory_src
        memory_tokens == estimate_tokens(memory_text)
        remaining2 == remaining1 - memory_tokens
        session_src == build_session_summary(session_messages)
        session_text == IF estimate_tokens(session_src) > remaining2
                        THEN truncate_to_tokens(session_src, remaining2)
                        ELSE session_src
    IN [built |-> TRUE,
        reserved |-> reserved,
        remaining0 |-> remaining0,
        profile_text |-> profile_text,
        profile_tokens |-> profile_tokens,
        remaining1 |-> remaining1,
        memory_budget |-> memory_budget,
        memory_text |-> memory_text,
        memory_tokens |-> memory_tokens,
        remaining2 |-> remaining2,
        session_text |-> session_text,
        sections |-> Sections(system_part, profile_text, memory_text, session_text, query_part)]

\* len("\n\n".join(sections))
PromptLen(sections) == JoinLen([i \in 1..Len(sections) |-> TextLen(sections[i])], 2)

NoCall == [called |-> FALSE]
NoPrompt == [built |-> FALSE]

\* the arguments of the calls: lengths of the query, profiles, candidate lists,
\* session histories and token ceilings
UserQueries == {2, 40}
Profiles ==
    {NoProfile,
     [set |-> TRUE, display_name |-> 4, expertise_level |-> 0, communication_style |-> 0,
      interests |-> <<>>, goals |-> <<>>],
     [set |-> TRUE, display_name |-> 4, expertise_level |-> 6, communication_style |-> 7,
      interests |-> <<6, 7, 6, 5, 8, 9>>, goals |-> <<60, 70, 80, 90>>]}
CandidateLists ==
    {<<>>,
     <<[memory_type |-> "semantic", content |-> 10]>>,
     [i \in 1..10 |-> [memory_type |-> IF i = 1 THEN "profile" ELSE "semantic", content |-> 250]]}
SessionHistories ==
    {<<>>,
     <<[role |-> "user", content |-> 12]>>,
     [i \in 1..5 |-> [role |-> IF i % 2 = 1 THEN "user" ELSE "assistant", content |-> 400]]}
TokenCeilings == {100, 145, 147, 200, 1800}

PromptCalls ==
    [called : {TRUE}, user_query : UserQueries, profile : Profiles,
     retrieved_memories : CandidateLists, session_messages : SessionHistories,
     max_tokens : TokenCeilings]

\* build_prompt runs on the arguments of the call
BuildPrompt ==
    /\ bpArgs.called
    /\ ~bpOut.built
    /\ bpOut' = build_prompt(bpArgs.user_query, bpArgs.profile, bpArgs.retrieved_memories,
                             bpArgs.session_messages, bpArgs.max_tokens)
    /\ UNCHANGED <<storeVars, bpArgs, scoreVars, streamVars>>

\* ------------------------------------------------------- streamed chat turn
\* Steps 1-8 of process_chat_stream, the async generator that StreamingResponse
\* iterates.  A message is [role, content]; the content of an assistant message
\* is the sequence of the tokens joined.
Tokens == {"a", "b"}
UserMessage == "hi"

\* save_message
save_message(msgs, role, content) == Append(msgs, [role |-> role, content |-> content])

InitStream ==
    /\ stPc = "idle"
    /\ full_response = <<>>
    /\ sessionMsgs = <<>>
    /\ connected = TRUE

\* the user messages saved so far
Turns == Cardinality({i \in 1..Len(sessionMsgs) : sessionMsgs[i].role = "user"})

\* steps 1-7 up to the first yield: the user message is saved, the list is empty
StreamBegin ==
    /\ stPc = "idle"
    /\ Turns < MaxTurns
    /\ sessionMsgs' = save_message(sessionMsgs, "user", UserMessage)
    /\ full_response' = <<>>
    /\ connected' = TRUE
    /\ stPc' = "streaming"
    /\ UNCHANGED <<storeVars, promptVars, scoreVars>>

\* async for token in stream_ollama(prompt): append it and yield it
StreamToken(token) ==
    /\ stPc = "streaming"
    /\ connected
    /\ Len(full_response) < MaxTokens
    /\ full_response' = Append(full_response, token)
    /\ UNCHANGED <<storeVars, promptVars, scoreVars, stPc, sessionMsgs, connected>>

\* the upstream stream is done: step 8 saves the assistant message
StreamEnd ==
    /\ stPc = "streaming"
    /\ connected
    /\ sessionMsgs' = save_message(sessionMsgs, "assistant", full_response)
    /\ stPc' = "done"
    /\ UNCHANGED <<storeVars, promptVars, scoreVars, full_response, connected>>

\* the client goes away while the completion is being streamed
ClientDisconnect ==
    /\ stPc = "streaming"
    /\ connected
    /\ connected' = FALSE
    /\ UNCHANGED <<storeVars, promptVars, scoreVars, stPc, full_response, sessionMsgs>>

\* the response task is cancelled: the generator is closed where it is
\* suspended, at its yield or inside stream_ollama; nothing handles that, so
\* the statements after the async for, step 8 among them, are never reached
StreamClosed ==
    /\ stPc = "streaming"
    /\ ~connected
    /\ stPc' = "closed"
    /\ UNCHANGED <<storeVars, promptVars, scoreVars, full_response, sessionMsgs, connected>>

\* the request is over
StreamReturn ==
    /\ stPc \in {"done", "closed"}
    /\ stPc' = "idle"
    /\ full_response' = <<>>
    /\ connected' = TRUE
    /\ UNCHANGED <<storeVars, promptVars, scoreVars, sessionMsgs>>

\* ------------------------------------------------------- specifications
InitStore ==
    /\ memories = <<>>
    /\ nextId = 1
    /\ clock = 0
    /\ indexFile = Absent
    /\ metaFile = Absent
    /\ saveCount = 0
    /\ contentLog = <<>>
    /\ pc = [p \in Procs |-> "idle"]
    /\ requests = 0
    /\ faults = 0
    /\ chatQueue = <<>>
    /\ aIndex = NoIndex
    /\ aIds = NoIds
    /\ aBefore = 0
    /\ aFaissId = 0
    /\ aMetaVer = 0
    /\ aVer = 0
    /\ aOutcome = "none"
    /\ rMems = <<>>
    /\ rVer = 0
    /\ rOutcome = "none"
    /\ kIndex = NoIndex
    /\ kIds = NoIds
    /\ kMetaVer = 0
    /\ kTopK = 1
    /\ kFetched = <<>>
    /\ rankResult = <<>>

\* the state after construction: no call of the assembler has been made
Init ==
    /\ InitStore
    /\ bpArgs = NoCall
    /\ bpOut = NoPrompt
    /\ scArgs = NoScoreCall
    /\ scOut = NoScore
    /\ InitStream

\* the inputs of the requests
PutRequests == {<<Owner, MEMORY_SEMANTIC, c>> : c \in Contents} \cup {<<"u2", MEMORY_SEMANTIC, "rain">>}
OwnerPutRequests == {<<Owner, MEMORY_SEMANTIC, c>> : c \in Contents}
FixedQuery == [c \in Contents |-> IF c = "rain" THEN 54000 ELSE 50000]

\* SpecLive: upserts, chat turns and rebuilds of the owner, one request at a
\* time, a write or a commit raising at most MaxFaults times.  A handler that has
\* started takes its next step, and chat turns of the owner keep coming.
NextLive ==
    \/ \E r \in OwnerPutRequests : AllIdle /\ Upsert(r[1], r[2], r[3])
    \/ \E f \in FactLists : AllIdle /\ ChatBegin(f)
    \/ AllIdle /\ ChatAgain
    \/ AppendLoadIndex
    \/ AppendLoadMeta
    \/ AppendEmbed
    \/ AppendEmbedFail
    \/ AppendWriteIndex
    \/ AppendWriteMeta
    \/ AppendStamp
    \/ AppendStampFail
    \/ ChatLoopNext
    \/ \E m \in get_memories_by_user(memories, Owner, MEMORY_SEMANTIC, QueryLimit) : AllIdle /\ RebuildQuery(m)
    \/ RebuildStamp
    \/ RebuildWriteIndex
    \/ RebuildWriteIndexFail
    \/ RebuildWriteMeta
    \/ RebuildReturn

Fairness ==
    /\ WF_vars(AllIdle /\ ChatAgain)
    /\ WF_vars(AppendLoadIndex)
    /\ WF_vars(AppendLoadMeta)
    /\ WF_vars(AppendEmbed)
    /\ WF_vars(AppendWriteIndex)
    /\ WF_vars(AppendWriteMeta)
    /\ WF_vars(AppendStamp)
    /\ WF_vars(ChatLoopNext)
    /\ WF_vars(RebuildStamp)
    /\ WF_vars(RebuildWriteIndex)
    /\ WF_vars(RebuildWriteMeta)
    /\ WF_vars(RebuildReturn)

SpecLive == Init /\ [][NextLive]_vars /\ Fairness

\* SpecUpsert: PUT /memory requests alone, one after the other, with contents
\* that differ in case or only after their 120th character
UpsertContents == {"i like tea", "I LIKE TEA", Confession, ConfessionRetold}
UpsertRequests ==
    {<<Owner, t, c>> : t \in {MEMORY_SEMANTIC, MEMORY_EPISODIC}, c \in UpsertContents}
        \cup {<<"u2", MEMORY_SEMANTIC, "I LIKE TEA">>}

NextUpsert ==
    \/ \E r \in UpsertRequests : Upsert(r[1], r[2], r[3])
    \/ Tick

SpecUpsert == Init /\ [][NextUpsert]_vars

\* SpecSeq: one request at a time, the index files always writable
NextSeq ==
    \/ \E r \in PutRequests : AllIdle /\ Upsert(r[1], r[2], r[3])
    \/ \E id \in DOMAIN memories, u \in Users : AllIdle /\ Delete(id, u)
    \/ AllIdle /\ Tick
    \/ \E f \in FactLists : AllIdle /\ ChatBegin(f)
    \/ AppendLoadIndex
    \/ AppendLoadMeta
    \/ AppendEmbed
    \/ AppendEmbedFail
    \/ AppendWriteIndex
    \/ AppendWriteMeta
    \/ AppendStamp
    \/ AppendStampFail
    \/ ChatLoopNext
    \/ \E m \in get_memories_by_user(memories, Owner, MEMORY_SEMANTIC, QueryLimit) : AllIdle /\ RebuildQuery(m)
    \/ RebuildStamp
    \/ RebuildWriteIndex
    \/ RebuildWriteMeta
    \/ RebuildReturn
    \/ \E k \in 1..MaxK : AllIdle /\ RankLoadIndex(k)
    \/ RankLoadMeta
    \/ \E q \in Queries : \E h \in Search(q) : RankScore(q, h)
    \/ RankReturn

SpecSeq == Init /\ [][NextSeq]_vars

\* SpecFault: one request at a time, and a write of either index file may raise
NextFault ==
    \/ \E r \in PutRequests : AllIdle /\ Upsert(r[1], r[2], r[3])
    \/ \E id \in DOMAIN memories, u \in Users : AllIdle /\ Delete(id, u)
    \/ AllIdle /\ Tick
    \/ \E f \in FactLists : AllIdle /\ ChatBegin(f)
    \/ AppendLoadIndex
    \/ AppendLoadMeta
    \/ AppendEmbed
    \/ AppendEmbedFail
    \/ AppendWriteIndex
    \/ AppendWriteIndexFail
    \/ AppendWriteMeta
    \/ AppendWriteMetaFail
    \/ AppendStamp
    \/ AppendStampFail
    \/ ChatLoopNext
    \/ \E m \in get_memories_by_user(memories, Owner, MEMORY_SEMANTIC, QueryLimit) : AllIdle /\ RebuildQuery(m)
    \/ RebuildStamp
    \/ RebuildWriteIndex
    \/ RebuildWriteIndexFail
    \/ RebuildWriteMeta
    \/ RebuildWriteMetaFail
    \/ RebuildReturn
    \/ \E k \in 1..MaxK : AllIdle /\ RankLoadIndex(k)
    \/ RankLoadMeta
    \/ \E q \in Queries : \E h \in Search(q) : RankScore(q, h)
    \/ RankReturn

SpecFault == Init /\ [][NextFault]_vars

\* Spec: the handlers of one user interleaved step by step, nothing raising
Next ==
    \/ \E r \in OwnerPutRequests : Upsert(r[1], r[2], r[3])
    \/ \E f \in FactLists : ChatBegin(f)
    \/ AppendLoadIndex
    \/ AppendLoadMeta
    \/ AppendEmbed
    \/ AppendWriteIndex
    \/ AppendWriteMeta
    \/ AppendStamp
    \/ ChatLoopNext
    \/ \E m \in get_memories_by_user(memories, Owner, MEMORY_SEMANTIC, QueryLimit) : RebuildQuery(m)
    \/ RebuildStamp
    \/ RebuildWriteIndex
    \/ RebuildWriteMeta
    \/ RebuildReturn
    \/ \E k \in 1..MaxK : RankLoadIndex(k)
    \/ RankLoadMeta
    \/ \E h \in Search(FixedQuery) : RankScore(FixedQuery, h)
    \/ RankReturn

Spec == Init /\ [][Next]_vars

\* SpecPrompt: one call of build_prompt on arguments drawn from PromptCalls
InitPrompt ==
    /\ InitStore
    /\ bpArgs \in PromptCalls
    /\ bpOut = NoPrompt
    /\ scArgs = NoScoreCall
    /\ scOut = NoScore
    /\ InitStream

NextPrompt == BuildPrompt

SpecPrompt == InitPrompt /\ [][NextPrompt]_vars

\* SpecScore: one call of compute_importance_score on arguments drawn from ScoreCalls
InitScore ==
    /\ InitStore
    /\ bpArgs = NoCall
    /\ bpOut = NoPrompt
    /\ scArgs \in ScoreCalls
    /\ scOut = NoScore
    /\ InitStream

NextScore == ScoreImportance

SpecScore == InitScore /\ [][NextScore]_vars

\* SpecStream: chat turns of one session, streamed to a client that may go away
NextStream ==
    \/ StreamBegin
    \/ \E t \in Tokens : StreamToken(t)
    \/ StreamEnd
    \/ ClientDisconnect
    \/ StreamClosed
    \/ StreamReturn

SpecStream == Init /\ [][NextStream]_vars

\* ---------------------------------------------------------------- claims
\* vecs[i] is the embedding of the memory whose identifier is ids[i], for every i
Aligned(vecs, ids) ==
    /\ Len(vecs) = Len(ids)
    /\ \A i \in 1..Len(ids) : vecs[i] = EmbedText(contentLog[ids[i]])

\* a save_faiss_index call has written the index and not yet the identifier list
SaveInProgress == pc["chat"] = "a_write_meta" \/ pc["rebuild"] = "r_write_meta"

\* the two files on disk were written by the same save (or neither exists)
MatchingPair ==
    /\ indexFile.exists = metaFile.exists
    /\ indexFile.ver = metaFile.ver

\* every slot stamp of the owner's rows points at the row's own identifier
StampsAgree ==
    \A id \in DOMAIN memories :
        (memories[id].user_id = Owner /\ memories[id].faiss_index_id # NoneId) =>
            /\ metaFile.exists
            /\ memories[id].faiss_index_id < Len(metaFile.data)
            /\ metaFile.data[memories[id].faiss_index_id + 1] = id

\* C1: after any sequence of appends and rebuilds (none in the middle of its
\* save) the persisted index and identifier list have the same length and the
\* vector at slot i is the embedding of the memory whose identifier is at i
C1_IndexAlignedWithIds ==
    ~SaveInProgress =>
        /\ indexFile.exists = metaFile.exists
        /\ Aligned(indexFile.data, metaFile.data)

\* an append has just completed on an index that a rebuild or an earlier append filled
C1_Witness ==
    /\ pc["chat"] = "a_next"
    /\ aOutcome = "ok"
    /\ Len(metaFile.data) = 2
    /\ pc["rebuild"] = "idle"

\* C2: a load never returns an index and an identifier list written by
\* different saves, whatever a concurrent append or rebuild is doing
C2_LoadSeesOneVersion ==
    /\ pc["rank"] = "k_score" => kIndex.ver = kMetaVer
    /\ (pc["chat"] = "a_embed" /\ aIndex.present) => aIndex.ver = aMetaVer

\* C3: when appends and rebuilds of one user have all finished, every
\* stamped memory is in the identifier list at its own ordinal and the index
\* holds as many vectors as the list has identifiers
C3_NoLostUpdate ==
    AllIdle =>
        /\ Len(indexFile.data) = Len(metaFile.data)
        /\ StampsAgree

\* C4: an append or rebuild whose save raised leaves the two files a matching pair
C4_FailedSaveLeavesPair ==
    /\ (pc["chat"] = "a_next" /\ aOutcome = "save_failed") => MatchingPair
    /\ (pc["rebuild"] = "r_done" /\ rOutcome = "save_failed") => MatchingPair

\* C5: append returns the number of entries the index held before the call,
\* the new identifier sits at that ordinal, and no existing entry moves
C5_AppendOrdinal ==
    /\ [](pc["chat"] = "a_stamp" =>
            /\ aFaissId = aBefore
            /\ Len(indexFile.data) = aBefore + 1
            /\ Len(metaFile.data) = aFaissId + 1
            /\ metaFile.data[aFaissId + 1] = Head(chatQueue))
    /\ [][pc["chat"] \in {"a_write_index", "a_write_meta"} =>
            /\ \A i \in 1..Len(metaFile.data) :
                   i <= Len(metaFile'.data) /\ metaFile'.data[i] = metaFile.data[i]
            /\ \A i \in 1..Len(indexFile.data) :
                   i <= Len(indexFile'.data) /\ indexFile'.data[i] = indexFile.data[i]]_vars

\* the second append of a user has returned ordinal 1
C5_Witness ==
    /\ pc["chat"] = "a_stamp"
    /\ aFaissId = 1
    /\ aBefore = 1

\* C6: once a rebuild is over, however it ended, every slot stamp in storage
\* points at its own record in the persisted identifier list
C6_RebuildRestamps ==
    pc["rebuild"] = "r_done" => StampsAgree

\* C7: a delete leaves no ordinal of the identifier list mapped to the deleted id
C7_DeleteInvalidatesIndex ==
    [][\A id \in DOMAIN memories :
          id \notin DOMAIN memories' => id \notin Range(metaFile'.data)]_vars

\* the identifiers of the loaded list that resolve to a row of the owner
Resolvable(i) ==
    /\ i <= Len(kIds)
    /\ kIds[i] \in DOMAIN memories
    /\ memories[kIds[i]].user_id = Owner

\* C8: rank returns at most top_k results, each an existing row of the user,
\* and a stale entry costs nothing but itself: every other fetched entry is scored
C8_RankBoundedAndLive ==
    pc["rank"] = "k_done" =>
        /\ Len(rankResult) <= kTopK
        /\ \A j \in 1..Len(rankResult) :
               /\ rankResult[j].id \in DOMAIN memories
               /\ memories[rankResult[j].id].user_id = Owner
        /\ Len(kIndex.vecs) <= 3 * kTopK =>
               Len(kFetched) = Cardinality({i \in 1..Len(kIndex.vecs) : Resolvable(i)})

\* rank met a stale entry and still returned the live one
C8_Witness ==
    /\ pc["rank"] = "k_done"
    /\ \E i \in 1..Len(kIds) : kIds[i] \notin DOMAIN memories
    /\ Len(rankResult) = 1

\* C9: no step of rank changes a memory row or either index file
C9_RankReadOnly ==
    [][pc'["rank"] # pc["rank"] =>
          /\ memories' = memories
          /\ indexFile' = indexFile
          /\ metaFile' = metaFile]_vars

\* rank has scored and returned a candidate
C9_Witness ==
    /\ pc["rank"] = "k_done"
    /\ Len(rankResult) >= 1
    /\ \E id \in DOMAIN memories : memories[id].reinforcement_count > 1

\* the elements of cands whose composite score is score, in order
OfScore(cands, score) ==
    LET Test(c) == c.composite_score = score
    IN SelectSeq(cands, Test)

IsPrefix(a, b) == Len(a) <= Len(b) /\ a = SubSeq(b, 1, Len(a))

ScoresOf(cands) == {cands[i].composite_score : i \in 1..Len(cands)}

RankAt(simOf, hits, now) ==
    Truncate(SortDesc(Candidates(memories, Owner, kIndex.vecs, kIds, simOf, hits, now)), kTopK)

\* C11: rank is deterministic: with the same index snapshot, the same storage,
\* the same query and the same search hits, the call made now and the call made
\* an hour later return the same ordered list with the same scores
C11_RankDeterministic ==
    pc["rank"] = "k_score" =>
        \A q \in Queries : \A h \in Search(q) :
            RankAt(q, h, clock) = RankAt(q, h, clock + 1)

\* C12: for every call, the assembled prompt measured in characters is at most
\* four times max_tokens plus the length of one truncation marker
C12_PromptWithinBudget ==
    bpOut.built =>
        PromptLen(bpOut.sections) <= bpArgs.max_tokens * CharsPerToken + MarkerLen

\* the place of a section in the fixed order
SectionRank(text) ==
    CASE text.src = "system" -> 1
      [] text.src = "profile" -> 2
      [] text.src = "memory" -> 3
      [] text.src = "session" -> 4
      [] text.src = "query" -> 5

\* C13: the sections come in the order system, profile, memory, session,
\* query; the system instruction and the query section are whole; a section is
\* there only if its builder produced text, and none is a bare marker
C13_SectionsInOrder ==
    bpOut.built =>
        LET secs == bpOut.sections
        IN /\ secs[1] = SystemText
           /\ secs[Len(secs)] = QueryText(bpArgs.user_query)
           /\ \A i, j \in 1..Len(secs) : i < j => SectionRank(secs[i]) < SectionRank(secs[j])
           /\ \A i \in 1..Len(secs) : secs[i].full > 0
           /\ \A i \in 1..Len(secs) : secs[i].len > 0

\* the budget a section uses: its estimated tokens if it is emitted, else none
SectionCost(text) == IF TextLen(text) > 0 THEN estimate_tokens(text) ELSE 0

\* C14: the profile section costs at most a quarter of the budget R left after
\* the reservation, the memory section at most half of R minus the profile's
\* cost, the session section at most what is left after the memory's cost, and
\* a section that is absent takes nothing from the budget
C14_BudgetPriority ==
    bpOut.built =>
        LET R0 == bpOut.remaining0
            R1 == R0 - SectionCost(bpOut.profile_text)
            R2 == R1 - SectionCost(bpOut.memory_text)
        IN /\ TextLen(bpOut.profile_text) > 0 => 4 * SectionCost(bpOut.profile_text) <= R0
           /\ TextLen(bpOut.memory_text) > 0 => 2 * SectionCost(bpOut.memory_text) <= R1
           /\ TextLen(bpOut.session_text) > 0 => SectionCost(bpOut.session_text) <= R2
           /\ bpOut.remaining1 = R1
           /\ bpOut.remaining2 = R2

\* C15: for every text and every reinforcement count n >= 1 the importance
\* lies in [0, 1], and the importance at n + 1 is not below the importance at n
C15_ImportanceBoundedMonotone ==
    scOut.scored =>
        /\ 0 <= scOut.score
        /\ scOut.score <= Scale
        /\ 0 <= scOut.reinforced
        /\ scOut.reinforced <= Scale
        /\ scOut.score <= scOut.reinforced

\* the scorer ran on a text that reaches both keyword caps and both length
\* bonuses, at a count where the reinforcement term is at its cap
C15_Witness ==
    /\ scOut.scored
    /\ scArgs.content = Confession
    /\ scArgs.reinforcement_count = 7
    /\ scOut.score = 9900
    /\ scOut.reinforced = 9900

\* C16: every stored row's importance score is the scorer's value for the
\* row's content and reinforcement count, and the count is at least 1
C16_ImportanceIsDerived ==
    \A id \in DOMAIN memories :
        /\ memories[id].reinforcement_count >= 1
        /\ memories[id].importance_score =
               compute_importance_score(memories[id].content, memories[id].reinforcement_count)

\* a row has been reinforced twice since it was created
C16_Witness ==
    \E id \in DOMAIN memories :
        /\ memories[id].reinforcement_count = 3
        /\ memories[id].importance_score = 4200

\* C17: rebuild is idempotent on the mapping: when a rebuild has saved, a
\* second rebuild that reads the unchanged rows in the same order selects the
\* same rows, writes the same identifier list and index, and leaves every
\* slot stamp as the first run set it
C17_RebuildIdempotent ==
    (pc["rebuild"] = "r_done" /\ rOutcome = "ok") =>
        /\ metaFile.data \in get_memories_by_user(memories, Owner, MEMORY_SEMANTIC, QueryLimit)
        /\ RebuiltIds(metaFile.data) = metaFile.data
        /\ RebuiltIndex(metaFile.data) = indexFile.data
        /\ StampAll(memories, metaFile.data, 1) = memories

\* a rebuild of two memories has saved over the files an earlier save had written
C17_Witness ==
    /\ pc["rebuild"] = "r_done"
    /\ rOutcome = "ok"
    /\ Len(metaFile.data) = 2
    /\ saveCount >= 2

\* embed_and_store_memory raised before it could commit the slot stamp
AppendFailed == aOutcome \in {"embed_failed", "save_failed", "commit_failed"}

\* C18: in the indexing loop of a chat turn a failure on one memory leaves that
\* memory without a slot identifier, the loop goes on to the next memory it
\* selected whatever the outcome was, and the turn ends only after the last one
C18_LoopSurvivesFailure ==
    /\ []((pc["chat"] = "a_next" /\ AppendFailed /\ Head(chatQueue) \in DOMAIN memories) =>
             memories[Head(chatQueue)].faiss_index_id = NoneId)
    /\ [][pc["chat"] = "a_next" =>
             \/ pc'["chat"] = "a_next"
             \/ /\ chatQueue' = Tail(chatQueue)
                /\ pc'["chat"] = IF Tail(chatQueue) = <<>> THEN "idle" ELSE "a_load_index"]_vars
    /\ [][(pc["chat"] # "idle" /\ pc'["chat"] = "idle") =>
             (pc["chat"] = "a_next" /\ Len(chatQueue) = 1)]_vars

\* the memory after one that failed in this turn has been indexed and stamped
C18_Witness ==
    /\ pc["chat"] = "a_next"
    /\ aOutcome = "ok"
    /\ faults = 1
    /\ \E id \in NewSemanticMems(memories, Owner) : id < Head(chatQueue)

\* C19: when the client has gone away during the stream and the turn is over,
\* the last message of the session is the assistant message holding the
\* tokens accumulated up to then, saved once
C19_PartialResponseSaved ==
    stPc = "closed" =>
        /\ Len(sessionMsgs) >= 2
        /\ sessionMsgs[Len(sessionMsgs)] = [role |-> "assistant", content |-> full_response]
        /\ sessionMsgs[Len(sessionMsgs) - 1].role = "user"

\* the weighted sum of the scores a candidate reports, held with eight decimals
ReportedSum(c) ==
    WEIGHT_SEMANTIC * c.semantic_similarity
    + WEIGHT_RECENCY * c.recency_score
    + WEIGHT_IMPORTANCE * c.importance_score
    + WEIGHT_FREQUENCY * (IF c.reinforcement_count >= 20 THEN Scale
                          ELSE (c.reinforcement_count * Scale) \div 20)
    + WEIGHT_PERSONAL * (IF c.memory_type \in {"profile", "episodic"} THEN 8000 ELSE 5000)

Abs(x) == IF x < 0 THEN -x ELSE x

\* C20 as stated: the composite score a returned candidate reports is exactly
\* the weighted sum of the scores reported with it
C20_CompositeIsReportedSum ==
    pc["rank"] = "k_done" =>
        \A j \in 1..Len(rankResult) :
            rankResult[j].composite_score * Scale = ReportedSum(rankResult[j])

\* C20 as amended: every candidate reports the stored importance of its row,
\* and its composite score is the weighted sum rounded to four decimals: it is
\* within half a unit of the fourth decimal, plus the rounding of the
\* similarity times its weight, of the sum of the scores reported with it
C20_CompositeRounded ==
    pc["rank"] = "k_done" =>
        \A j \in 1..Len(kFetched) :
            /\ kFetched[j].importance_score = memories[kFetched[j].id].importance_score
            /\ 2 * Abs(kFetched[j].composite_score * Scale - ReportedSum(kFetched[j]))
                   <= Scale + WEIGHT_SEMANTIC

\* rank returned a candidate whose similarity had a fifth decimal to round away
C20_Witness ==
    /\ pc["rank"] = "k_done"
    /\ Len(rankResult) = 1
    /\ rankResult[1].semantic_similarity = 5001
    /\ rankResult[1].reinforcement_count = 2

\* the semantic rows of the owner: what rebuild_user_index has to index
OwnerSemantic(table) ==
    {id \in DOMAIN table : /\ table[id].user_id = Owner
                            /\ table[id].memory_type = MEMORY_SEMANTIC}

\* C21: a rebuild for a user who has no semantic memory is a no-op: none of its
\* steps writes the index file, the identifier list or any row of the table, so
\* an index persisted earlier stays in place, and it is reported as "noop"
C21_EmptyRebuildIsNoOp ==
    [][(pc["rebuild"] # pc'["rebuild"] /\ OwnerSemantic(memories) = {})
          => /\ indexFile' = indexFile
             /\ metaFile' = metaFile
             /\ memories' = memories
             /\ pc'["rebuild"] \in {"r_done", "idle"}
             /\ pc'["rebuild"] = "r_done" => rOutcome' = "noop"]_vars

\* an empty rebuild has returned while an index saved earlier is on disk
C21_Witness ==
    /\ pc["rebuild"] = "r_done"
    /\ rOutcome = "noop"
    /\ OwnerSemantic(memories) = {}
    /\ indexFile.exists
    /\ metaFile.exists
    /\ Len(metaFile.data) > 0

\* C22: no memory identifier stands at two ordinals of the identifier list, and
\* the candidates rank has fetched name no memory twice
C22_NoDuplicateIdentifier ==
    /\ \A i, j \in 1..Len(metaFile.data) :
           metaFile.data[i] = metaFile.data[j] => i = j
    /\ pc["rank"] = "k_done" =>
           \A i, j \in 1..Len(kFetched) : kFetched[i].id = kFetched[j].id => i = j

\* the weighted sum of the scores a candidate reports, with the personal bonus 0.5
SumWithSemanticBonus(c) ==
    WEIGHT_SEMANTIC * c.semantic_similarity
    + WEIGHT_RECENCY * c.recency_score
    + WEIGHT_IMPORTANCE * c.importance_score
    + WEIGHT_FREQUENCY * (IF c.reinforcement_count >= 20 THEN Scale
                          ELSE (c.reinforcement_count * Scale) \div 20)
    + WEIGHT_PERSONAL * 5000

\* C23: every identifier of the owner's identifier list whose row still exists
\* names a semantic memory of the owner, and so does every identifier queued
\* for an append or read by a rebuild; every candidate rank fetches has type
\* semantic and a composite score made with the personal bonus 0.5
C23_OnlySemanticIndexed ==
    /\ \A id \in (Range(metaFile.data) \cup Range(chatQueue) \cup Range(rMems))
                 \cap DOMAIN memories :
           /\ memories[id].user_id = Owner
           /\ memories[id].memory_type = MEMORY_SEMANTIC
    /\ pc["rank"] = "k_done" =>
           \A j \in 1..Len(kFetched) :
               /\ kFetched[j].memory_type = MEMORY_SEMANTIC
               /\ 2 * Abs(kFetched[j].composite_score * Scale - SumWithSemanticBonus(kFetched[j]))
                      <= Scale + WEIGHT_SEMANTIC

\* rank returned a candidate while the owner also has an episodic memory and
\* another user has a semantic one
C23_Witness ==
    /\ pc["rank"] = "k_done"
    /\ Len(rankResult) = 1
    /\ \E id \in DOMAIN memories : /\ memories[id].user_id = Owner
                                  /\ memories[id].memory_type = MEMORY_EPISODIC
    /\ \E id \in DOMAIN memories : memories[id].user_id # Owner

\* the key upsert_memory_by_content compares on: owner, type and the lower-cased
\* first 120 characters of the content
UpsertKey(row) == <<row.user_id, row.memory_type, First120(Lower(row.content))>>

\* an upsert that found a match: no row is created, one row's reinforcement
\* count goes up by exactly 1 and its last-access time becomes the present
Reinforced(old, new) ==
    /\ DOMAIN new = DOMAIN old
    /\ \E id \in DOMAIN old :
          /\ new[id].reinforcement_count = old[id].reinforcement_count + 1
          /\ new[id].last_accessed = clock
          /\ new[id].content = old[id].content
          /\ new[id].user_id = old[id].user_id
          /\ new[id].memory_type = old[id].memory_type
          /\ new[id].timestamp = old[id].timestamp
          /\ new[id].faiss_index_id = old[id].faiss_index_id
          /\ \A o \in DOMAIN old \ {id} : new[o] = old[o]

\* an upsert that found no match: exactly one row is created, with reinforcement
\* count 1 and no slot identifier, and no earlier row has its key
Created(old, new) ==
    \E id \in DOMAIN new \ DOMAIN old :
        /\ DOMAIN new = DOMAIN old \cup {id}
        /\ new[id].reinforcement_count = 1
        /\ new[id].faiss_index_id = NoneId
        /\ \A o \in DOMAIN old : /\ new[o] = old[o]
                                 /\ UpsertKey(old[o]) # UpsertKey(new[id])

\* C24: after any sequence of upserts no two rows of one user and one type have
\* the same lower-cased first 120 characters of content, and every upsert
\* either reinforces one matching row by exactly 1 or creates exactly one row
C24_UpsertKeepsKeysUnique ==
    /\ [](\A a, b \in DOMAIN memories :
              UpsertKey(memories[a]) = UpsertKey(memories[b]) => a = b)
    /\ [][memories' # memories =>
              Reinforced(memories, memories') \/ Created(memories, memories')]_vars

\* a row was reinforced after time had passed, next to a row of the same
\* owner and content key under the other type
C24_Witness ==
    \E a, b \in DOMAIN memories :
        /\ memories[a].reinforcement_count = 2
        /\ memories[a].last_accessed > memories[a].timestamp
        /\ memories[a].content \in {"I LIKE TEA", Confession}
        /\ memories[b].user_id = memories[a].user_id
        /\ memories[b].memory_type # memories[a].memory_type
        /\ First120(Lower(memories[b].content)) = First120(Lower(memories[a].content))

\* the identifiers a row can have within the bounds
MemoryIds == 1..(2 * MaxRequests)

\* row id carries a slot identifier s and the identifier list holds id at s
Indexed(id) ==
    /\ id \in DOMAIN memories
    /\ memories[id].faiss_index_id # NoneId
    /\ memories[id].faiss_index_id < Len(metaFile.data)
    /\ metaFile.data[memories[id].faiss_index_id + 1] = id

\* C25: every semantic memory of the owner is eventually indexed: while chat
\* turns of its owner keep completing and failures end, it comes to carry a
\* slot identifier s with the identifier list holding its id at s
C25_EventuallyIndexed ==
    \A id \in MemoryIds :
        (id \in OwnerSemantic(memories)) ~> (id \notin DOMAIN memories \/ Indexed(id))

====
